---- MODULE Spec2Model ----
(***************************************************************************)
(* Model of frontend/remove_bg.py: remove_black_background(input_path,     *)
(* output_path) loads an image, converts it to RGBA, masks the pixels      *)
(* whose red, green and blue are all below the threshold, zeroes their     *)
(* alpha, saves the result at output_path and prints a confirmation.       *)
(*                                                                         *)
(* A file system maps paths to file contents.  Each invocation is a        *)
(* process that walks through the statements of the function; Pillow's     *)
(* save is two steps (open the file for writing, which truncates it, then  *)
(* encode), so that a concurrent reader can see the truncated file.        *)
(***************************************************************************)
EXTENDS Integers, Sequences, FiniteSets

VARIABLES
    fs,           \* the file system: path -> file content
    fs0,          \* history: the file system when the program started
    pc,           \* per invocation: the statement it is at
    input_path,   \* per invocation: first argument
    output_path,  \* per invocation: second argument
    data,         \* per invocation: the numpy array (h x w x 4)
    black_mask,   \* per invocation: the positions where the mask is true
    created,      \* per invocation: Pillow's save created the output file
    exc,          \* per invocation: the exception that left the function
    visited,      \* per invocation: pixels done by the pixel-by-pixel loop
    stdout        \* the lines printed so far

vars == <<fs, fs0, pc, input_path, output_path, data, black_mask, created,
          exc, visited, stdout>>

\* ------------------------------------------------------------------ bounds

\* Largest number of pixels (width * height) of an input image.
MaxPixels == 2

\* ------------------------------------------------------- program constants

\* threshold = 30
threshold == 30

\* ------------------------------------------------------------------- paths

\* The two paths of the __main__ block, a path with a .jpg extension, and a
\* path in a directory that cannot be written.
LogoPng == [dir |-> "images", stem |-> "logo", ext |-> "png"]

LogoTransparentPng == [dir |-> "images", stem |-> "logo_transparent", ext |-> "png"]

LogoJpg == [dir |-> "images", stem |-> "logo", ext |-> "jpg"]

ReadOnlyPng == [dir |-> "readonly", stem |-> "logo", ext |-> "png"]

Paths == {LogoPng, LogoTransparentPng, LogoJpg, ReadOnlyPng}

DirWritable(path) == path.dir = "images"

Procs == {1, 2}

\* A buffer shared by every invocation, as a module-level global would be.
SharedFrame(p) == 1

\* data and black_mask are locals of the function: every invocation has its
\* own.
Frame(p) == p

\* ------------------------------------------------------------------ images

\* Channel values on both sides of the threshold.
ColourLevels == {threshold - 1, threshold}

AlphaLevels == {0, 128, 255}

PixelsOf(mode) ==
    CASE mode = "L"    -> {<<l>> : l \in ColourLevels}
      [] mode = "RGB"  -> ColourLevels \X ColourLevels \X ColourLevels
      [] mode = "RGBA" -> ColourLevels \X ColourLevels \X ColourLevels \X AlphaLevels

Shapes == {s \in (1..MaxPixels) \X (1..MaxPixels) : s[1] * s[2] <= MaxPixels}

\* Pillow images: size is (width, height), px is row-major.
ImagesWith(mode, pixels) ==
    UNION {[mode : {mode}, size : {s}, px : [1..(s[1] * s[2]) -> pixels]]
           : s \in Shapes}

ImagesOf(mode) == ImagesWith(mode, PixelsOf(mode))

\* ------------------------------------------------------------------- files

Absent == [kind |-> "absent"]

\* Bytes that are no image: an empty or truncated file, or other data.
Garbage == [kind |-> "garbage"]

\* JPEG stores no alpha channel.
FormatModes(format) ==
    IF format = "PNG" THEN {"L", "RGB", "RGBA"} ELSE {"L", "RGB"}

Encode(im, format) ==
    [kind |-> "image", format |-> format, mode |-> im.mode, size |-> im.size,
     px |-> im.px]

Formats == {"PNG", "JPEG"}

ImageFiles ==
    UNION {{Encode(im, f) : im \in UNION {ImagesOf(m) : m \in FormatModes(f)}}
           : f \in Formats}

\* ---------------------------------------------------- the function's steps

\* Image.open(input_path): fails on a missing file or on bytes that are no
\* image; the format is found from the content, not from the extension.
Decodable(file) == file.kind = "image"

Decode(file) == [mode |-> file.mode, size |-> file.size, px |-> file.px]

\* .convert("RGBA"): grey becomes three equal channels, and an image with no
\* alpha channel becomes fully opaque.
ConvertPixel(mode, p) ==
    CASE mode = "L"    -> <<p[1], p[1], p[1], 255>>
      [] mode = "RGB"  -> <<p[1], p[2], p[3], 255>>
      [] mode = "RGBA" -> p

\* Mode "RGBa": the colours premultiplied by alpha.
ToPremultiplied(im) ==
    [mode |-> "RGBA", size |-> im.size,
     px |-> [i \in DOMAIN im.px |->
               LET q == ConvertPixel(im.mode, im.px[i])
               IN  <<(q[1] * q[4]) \div 255, (q[2] * q[4]) \div 255,
                     (q[3] * q[4]) \div 255, q[4]>>]]

ToRGBA(im) ==
    [mode |-> "RGBA", size |-> im.size,
     px |-> [i \in DOMAIN im.px |-> ConvertPixel(im.mode, im.px[i])]]

\* np.array(img): shape is (height, width, 4).
ToArray(im) == [shape |-> <<im.size[2], im.size[1]>>, px |-> im.px]

\* <= where the code has <.
IsBlackInclusive(p) == p[1] <= threshold /\ p[2] <= threshold /\ p[3] <= threshold

\* data[:,:,0] < threshold & data[:,:,1] < threshold & data[:,:,2] < threshold
IsBlack(p) == p[1] < threshold /\ p[2] < threshold /\ p[3] < threshold

\* A mask bit that also looks at the pixel before: next to a transparent
\* pixel counts as background.
MaskAtSmeared(d, i) == IsBlack(d.px[i]) \/ (i > 1 /\ d.px[i - 1][4] = 0)

\* black_mask at one position.
MaskAt(d, i) == IsBlack(d.px[i])

\* The boolean grid, as the set of positions where it is true.
BlackMask(d) == {i \in DOMAIN d.px : MaskAt(d, i)}

\* data[i, 3] = 0 at one position.
ZeroAlphaAt(d, i) == [d EXCEPT !.px[i][4] = 0]

\* data[black_mask, 3] = 255
ZeroAlphaOpaque(d, mask) ==
    [d EXCEPT !.px = [i \in DOMAIN d.px |->
                         IF i \in mask THEN [d.px[i] EXCEPT ![4] = 255] ELSE d.px[i]]]

\* data[black_mask] = 0
ZeroPixel(d, mask) ==
    [d EXCEPT !.px = [i \in DOMAIN d.px |->
                         IF i \in mask THEN <<0, 0, 0, 0>> ELSE d.px[i]]]

\* data[black_mask, 3] = 0
ZeroAlpha(d, mask) ==
    [d EXCEPT !.px = [i \in DOMAIN d.px |->
                         IF i \in mask THEN [d.px[i] EXCEPT ![4] = 0] ELSE d.px[i]]]

\* The shape taken as (width, height).
FromArrayTransposed(d) == [mode |-> "RGBA", size |-> d.shape, px |-> d.px]

\* Image.fromarray(data): an (h, w, 4) array of bytes is an RGBA image of
\* size (w, h).
FromArray(d) == [mode |-> "RGBA", size |-> <<d.shape[2], d.shape[1]>>, px |-> d.px]

\* new_img.save(output_path, format="PNG")
FormatAlwaysPng(path) == "PNG"

\* new_img.save(output_path) with no format argument: Pillow takes the
\* format from the extension.
FormatOf(path) == IF path.ext = "png" THEN "PNG" ELSE "JPEG"

\* The whole function on one input file, as far as the image it hands to save.
Processed(file) ==
    LET d == ToArray(ToRGBA(Decode(file)))
    IN  FromArray(ZeroAlpha(d, BlackMask(d)))

\* print(f"Processed image saved to {input_path}")
MessageInputPath(inp, out) == [text |-> "Processed image saved to ", path |-> inp]

\* print(f"Processed image saved to {output_path}")
Message(inp, out) == [text |-> "Processed image saved to ", path |-> out]

NoArray == [shape |-> <<0, 0>>, px |-> <<>>]

\* --------------------------------------------------------- initial states

\* One invocation, as the __main__ block makes it, with any two paths as its
\* arguments; images/logo.png holds any image file or bytes that are no image.
Init ==
    /\ \E f \in ImageFiles \cup {Garbage} :
          fs = [q \in Paths |-> IF q = LogoPng THEN f ELSE Absent]
    /\ fs0 = fs
    /\ pc = [p \in Procs |-> IF p = 1 THEN "start" ELSE "idle"]
    /\ \E inp \in Paths, out \in Paths :
          /\ input_path = [p \in Procs |-> IF p = 1 THEN inp ELSE LogoPng]
          /\ output_path = [p \in Procs |-> IF p = 1 THEN out ELSE LogoTransparentPng]
    /\ data = [p \in Procs |-> NoArray]
    /\ black_mask = [p \in Procs |-> {}]
    /\ created = [p \in Procs |-> FALSE]
    /\ exc = [p \in Procs |-> "none"]
    /\ visited = [p \in Procs |-> {}]
    /\ stdout = <<>>

\* Two invocations at once.  A dark and a light pixel value are enough to
\* tell the two images, and the two results, apart.
ConcPngFiles ==
    {Encode(im, "PNG") :
        im \in ImagesWith("RGBA", {<<threshold - 1, threshold - 1, threshold - 1, 128>>,
                                   <<threshold, threshold, threshold, 128>>})}

ConcJpgFiles ==
    {Encode(im, "JPEG") :
        im \in ImagesWith("RGB", {<<threshold - 1, threshold - 1, threshold - 1>>,
                                  <<threshold, threshold, threshold>>})}

ConcInputs == {LogoPng, LogoJpg, LogoTransparentPng}

ConcOutputs == {LogoPng, LogoTransparentPng, LogoJpg}

InitConc ==
    /\ \E f \in ConcPngFiles, g \in ConcJpgFiles :
          fs = [q \in Paths |-> CASE q = LogoPng -> f
                                  [] q = LogoJpg -> g
                                  [] OTHER -> Absent]
    /\ fs0 = fs
    /\ pc = [p \in Procs |-> "start"]
    /\ input_path \in [Procs -> ConcInputs]
    /\ output_path \in [Procs -> ConcOutputs]
    /\ data = [p \in Procs |-> NoArray]
    /\ black_mask = [p \in Procs |-> {}]
    /\ created = [p \in Procs |-> FALSE]
    /\ exc = [p \in Procs |-> "none"]
    /\ visited = [p \in Procs |-> {}]
    /\ stdout = <<>>

\* ----------------------------------------------------------------- actions

\* The load wrapped in a try/except that goes on with an empty array.
LoadIgnoringErrors(p) ==
    /\ pc[p] = "start"
    /\ data' = [data EXCEPT ![Frame(p)] =
                   IF Decodable(fs[input_path[p]])
                   THEN ToArray(ToRGBA(Decode(fs[input_path[p]])))
                   ELSE NoArray]
    /\ pc' = [pc EXCEPT ![p] = "loaded"]
    /\ UNCHANGED <<fs, fs0, input_path, output_path, black_mask, created, exc,
                   visited, stdout>>

\* img = Image.open(input_path).convert("RGBA"); data = np.array(img)
Load(p) ==
    /\ pc[p] = "start"
    /\ IF Decodable(fs[input_path[p]])
       THEN /\ data' = [data EXCEPT ![Frame(p)] =
                           ToArray(ToRGBA(Decode(fs[input_path[p]])))]
            /\ pc' = [pc EXCEPT ![p] = "loaded"]
            /\ exc' = exc
       ELSE /\ data' = data
            /\ pc' = [pc EXCEPT ![p] = "raised"]
            /\ exc' = [exc EXCEPT ![p] = "DecodeFailure"]
    /\ UNCHANGED <<fs, fs0, input_path, output_path, black_mask, created,
                   visited, stdout>>

\* black_mask = (data[:,:,0] < threshold) & ... & (data[:,:,2] < threshold)
Mask(p) ==
    /\ pc[p] = "loaded"
    /\ black_mask' = [black_mask EXCEPT ![Frame(p)] = BlackMask(data[Frame(p)])]
    /\ pc' = [pc EXCEPT ![p] = "masked"]
    /\ UNCHANGED <<fs, fs0, input_path, output_path, data, created, exc,
                   visited, stdout>>

\* data[black_mask, 3] = 0
Mutate(p) ==
    /\ pc[p] = "masked"
    /\ data' = [data EXCEPT ![Frame(p)] =
                   ZeroAlpha(data[Frame(p)], black_mask[Frame(p)])]
    /\ pc' = [pc EXCEPT ![p] = "mutated"]
    /\ UNCHANGED <<fs, fs0, input_path, output_path, black_mask, created, exc,
                   visited, stdout>>

\* new_img.save(output_path), first half: Pillow opens the file "w+b", which
\* creates or truncates it; in a directory that cannot be written the open
\* fails and nothing changes.
SaveOpen(p) ==
    /\ pc[p] = "mutated"
    /\ IF DirWritable(output_path[p])
       THEN /\ fs' = [fs EXCEPT ![output_path[p]] = Garbage]
            /\ created' = [created EXCEPT ![p] = (fs[output_path[p]] = Absent)]
            /\ pc' = [pc EXCEPT ![p] = "saving"]
            /\ exc' = exc
       ELSE /\ fs' = fs
            /\ created' = created
            /\ pc' = [pc EXCEPT ![p] = "raised"]
            /\ exc' = [exc EXCEPT ![p] = "WriteFailure"]
    /\ UNCHANGED <<fs0, input_path, output_path, data, black_mask, visited, stdout>>

\* new_img.save(output_path), second half: the encoder of the extension's
\* format writes the image, or refuses its mode ("cannot write mode RGBA as
\* JPEG").  After a refusal Pillow removes a file it created itself (older
\* versions leave it empty); a file that existed stays truncated.
SaveWrite(p) ==
    /\ pc[p] = "saving"
    /\ LET new_img == FromArray(data[Frame(p)])
           format  == FormatOf(output_path[p])
       IN  IF new_img.mode \in FormatModes(format)
           THEN /\ fs' = [fs EXCEPT ![output_path[p]] = Encode(new_img, format)]
                /\ pc' = [pc EXCEPT ![p] = "saved"]
                /\ exc' = exc
           ELSE /\ \E left \in (IF created[p] THEN {Absent, Garbage} ELSE {Garbage}) :
                      fs' = [fs EXCEPT ![output_path[p]] = left]
                /\ pc' = [pc EXCEPT ![p] = "raised"]
                /\ exc' = [exc EXCEPT ![p] = "WriteFailure"]
    /\ UNCHANGED <<fs0, input_path, output_path, data, black_mask, created,
                   visited, stdout>>

\* print(f"Processed image saved to {output_path}")
PrintMessage(p) ==
    /\ pc[p] = "saved"
    /\ stdout' = Append(stdout, Message(input_path[p], output_path[p]))
    /\ pc' = [pc EXCEPT ![p] = "returned"]
    /\ UNCHANGED <<fs, fs0, input_path, output_path, data, black_mask, created,
                   exc, visited>>

\* Lines 12 and 15 as an explicit loop over the pixels, in any order: the
\* mask bit of one pixel is computed and its alpha zeroed, one pixel a step.
PixelStep(p) ==
    /\ pc[p] = "loaded"
    /\ \E i \in DOMAIN data[Frame(p)].px \ visited[p] :
          /\ data' = [data EXCEPT ![Frame(p)] =
                         IF MaskAt(data[Frame(p)], i)
                         THEN ZeroAlphaAt(data[Frame(p)], i)
                         ELSE data[Frame(p)]]
          /\ visited' = [visited EXCEPT ![p] = visited[p] \cup {i}]
          /\ pc' = [pc EXCEPT ![p] =
                       IF visited[p] \cup {i} = DOMAIN data[Frame(p)].px
                       THEN "mutated" ELSE "loaded"]
    /\ UNCHANGED <<fs, fs0, input_path, output_path, black_mask, created, exc,
                   stdout>>

Next ==
    \E p \in Procs :
        \/ Load(p)
        \/ Mask(p)
        \/ Mutate(p)
        \/ SaveOpen(p)
        \/ SaveWrite(p)
        \/ PrintMessage(p)

NextOrder ==
    \E p \in Procs :
        \/ Load(p)
        \/ PixelStep(p)
        \/ SaveOpen(p)
        \/ SaveWrite(p)
        \/ PrintMessage(p)

\* One invocation, statement by statement.
Spec == Init /\ [][Next]_vars

\* Two invocations, interleaved at every statement.
SpecConc == InitConc /\ [][Next]_vars

\* One invocation whose masking is a loop over the pixels in any order.
SpecOrder == Init /\ [][NextOrder]_vars

\* ------------------------------------------------------------------ claims

\* The channels of pixel i of an image file as a viewer decodes them: a grey
\* image has three equal colour channels, and a file with no alpha channel is
\* fully opaque.
RedOf(file, i) == file.px[i][1]

GreenOf(file, i) == IF file.mode = "L" THEN file.px[i][1] ELSE file.px[i][2]

BlueOf(file, i) == IF file.mode = "L" THEN file.px[i][1] ELSE file.px[i][3]

AlphaOf(file, i) == IF file.mode = "RGBA" THEN file.px[i][4] ELSE 255

DarkAt(file, i) == RedOf(file, i) < 30 /\ GreenOf(file, i) < 30 /\ BlueOf(file, i) < 30

Succeeded(p) == pc[p] = "returned"

Finished(p) == pc[p] \in {"returned", "raised"}

\* The file the invocation was given, and the file at its output path now.
InputFile(p) == fs0[input_path[p]]

OutputFile(p) == fs[output_path[p]]

\* C1: after a successful call, every pixel whose input red, green and blue
\* are all below 30 has alpha 0 in the output image, whatever its input alpha.
C1_DarkPixelsTransparent ==
    \A p \in Procs :
        Succeeded(p) =>
            /\ OutputFile(p).kind = "image"
            /\ DOMAIN OutputFile(p).px = DOMAIN InputFile(p).px
            /\ \A i \in DOMAIN InputFile(p).px :
                  DarkAt(InputFile(p), i) => AlphaOf(OutputFile(p), i) = 0

\* A successful call on an input with a dark pixel that was not transparent.
C1_Witness ==
    /\ Succeeded(1)
    /\ \E i \in DOMAIN InputFile(1).px :
          /\ DarkAt(InputFile(1), i)
          /\ AlphaOf(InputFile(1), i) # 0
          /\ AlphaOf(OutputFile(1), i) = 0

\* C2: after a successful call, every pixel with a colour channel of 30 or
\* more keeps its input alpha, or has alpha 255 when the input had no alpha
\* channel; a pixel at exactly (30, 30, 30) is such a pixel.
C2_OtherPixelsKeepAlpha ==
    \A p \in Procs :
        Succeeded(p) =>
            /\ OutputFile(p).kind = "image"
            /\ DOMAIN OutputFile(p).px = DOMAIN InputFile(p).px
            /\ \A i \in DOMAIN InputFile(p).px :
                  ~DarkAt(InputFile(p), i) =>
                      AlphaOf(OutputFile(p), i) = AlphaOf(InputFile(p), i)

\* A successful call on an input with a half-transparent pixel at (30, 30, 30).
C2_Witness ==
    /\ Succeeded(1)
    /\ \E i \in DOMAIN InputFile(1).px :
          /\ InputFile(1).px[i] = <<30, 30, 30, 128>>
          /\ AlphaOf(OutputFile(1), i) = 128

\* C3: after a successful call, every pixel of the output, masked or not, has
\* the red, green and blue of the same pixel of the input.
C3_ColoursUnchanged ==
    \A p \in Procs :
        Succeeded(p) =>
            /\ OutputFile(p).kind = "image"
            /\ DOMAIN OutputFile(p).px = DOMAIN InputFile(p).px
            /\ \A i \in DOMAIN InputFile(p).px :
                  /\ RedOf(OutputFile(p), i) = RedOf(InputFile(p), i)
                  /\ GreenOf(OutputFile(p), i) = GreenOf(InputFile(p), i)
                  /\ BlueOf(OutputFile(p), i) = BlueOf(InputFile(p), i)

\* A successful call that changed the alpha of a masked pixel.
C3_Witness ==
    /\ Succeeded(1)
    /\ \E i \in DOMAIN InputFile(1).px :
          /\ DarkAt(InputFile(1), i)
          /\ AlphaOf(OutputFile(1), i) # AlphaOf(InputFile(1), i)
          /\ RedOf(OutputFile(1), i) = 29

\* C4, as the specification states it: whatever the extension of output_path,
\* the save does not fail because of it and the file written has an alpha
\* channel.
C4_AlphaFormatForEveryPath ==
    \A p \in Procs :
        /\ (pc[p] = "raised" /\ exc[p] = "WriteFailure")
              => ~DirWritable(output_path[p])
        /\ Succeeded(p) => (OutputFile(p).kind = "image" /\ OutputFile(p).mode = "RGBA")

\* C4, amended: with a .png output path the file written is a PNG with an
\* alpha channel; with a .jpg output path in a writable directory the save
\* fails with a write error, no image is left at output_path and the call
\* does not succeed.
C4_AlphaFormatFromExtension ==
    \A p \in Procs :
        /\ Succeeded(p) =>
              /\ output_path[p].ext = "png"
              /\ OutputFile(p).kind = "image"
              /\ OutputFile(p).format = "PNG"
              /\ OutputFile(p).mode = "RGBA"
        /\ (pc[p] = "raised" /\ exc[p] = "WriteFailure" /\ DirWritable(output_path[p]))
              => (output_path[p].ext = "jpg" /\ OutputFile(p).kind # "image")
        /\ (output_path[p].ext = "jpg" /\ Decodable(InputFile(p)) /\ Finished(p))
              => (pc[p] = "raised" /\ exc[p] = "WriteFailure" /\ stdout = <<>>)

\* A call with a decodable input and a .jpg output path whose save failed.
C4_Witness ==
    /\ pc[1] = "raised"
    /\ exc[1] = "WriteFailure"
    /\ output_path[1].ext = "jpg"
    /\ Decodable(InputFile(1))
    /\ OutputFile(1).kind # "image"

\* C5: running the function again on the output of a successful call gives an
\* image identical to that output.
C5_Idempotent ==
    \A p \in Procs :
        Succeeded(p) => Processed(OutputFile(p)) = Decode(OutputFile(p))

\* A successful call whose first run did change the image.
C5_Witness ==
    /\ Succeeded(1)
    /\ Decode(OutputFile(1)) # Decode(InputFile(1))
    /\ InputFile(1).mode = "RGBA"
    /\ \E i \in DOMAIN InputFile(1).px :
          DarkAt(InputFile(1), i) /\ AlphaOf(InputFile(1), i) = 128

\* C6: when the input cannot be decoded, the call ends in the decode error
\* at its first step, no file is created or changed, and nothing is printed.
C6_DecodeFailureLeavesNoOutput ==
    \A p \in Procs :
        (pc[p] \notin {"idle", "start"} /\ ~Decodable(InputFile(p))) =>
            /\ pc[p] = "raised"
            /\ exc[p] = "DecodeFailure"
            /\ fs = fs0
            /\ stdout = <<>>

\* A call that failed to decode a missing input, with an image at its
\* output path.
C6_Witness ==
    /\ pc[1] = "raised"
    /\ exc[1] = "DecodeFailure"
    /\ InputFile(1) = Absent
    /\ OutputFile(1).kind = "image"

\* C7: a call has printed exactly one line, which names output_path, once it
\* has succeeded, and then the image is saved at output_path; until then, and
\* after a failure in decode or save, it has printed nothing.
C7_OneLineAfterSave ==
    /\ Succeeded(1) =>
          /\ Len(stdout) = 1
          /\ stdout[1].path = output_path[1]
          /\ OutputFile(1).kind = "image"
          /\ Decode(OutputFile(1)) = FromArray(data[1])
    /\ ~Succeeded(1) => stdout = <<>>

\* A successful call whose two paths differ.
C7_Witness ==
    /\ Succeeded(1)
    /\ input_path[1] # output_path[1]
    /\ Len(stdout) = 1

\* What a call leaves at its output path when it runs alone.
AloneOutcomes(p) ==
    LET out == output_path[p]
    IN  IF ~Decodable(InputFile(p)) \/ ~DirWritable(out)
        THEN {fs0[out]}
        ELSE IF out.ext = "png"
             THEN {Encode(Processed(InputFile(p)), "PNG")}
             ELSE IF fs0[out] = Absent THEN {Absent, Garbage} ELSE {Garbage}

Disjoint(p, q) ==
    {input_path[p], output_path[p]} \cap {input_path[q], output_path[q]} = {}

\* C8: two concurrent calls that share no path do not interfere: when both
\* have finished, under any interleaving, each output path holds what its
\* call leaves there when it runs alone.
C8_DisjointCallsDoNotInterfere ==
    \A p \in Procs, q \in Procs :
        (p # q /\ Disjoint(p, q) /\ Finished(p) /\ Finished(q)) =>
            /\ OutputFile(p) \in AloneOutcomes(p)
            /\ Succeeded(p) <=> (Decodable(InputFile(p)) /\ output_path[p].ext = "png")

\* Two successful calls on disjoint paths that wrote different images.
C8_Witness ==
    /\ Disjoint(1, 2)
    /\ Succeeded(1)
    /\ Succeeded(2)
    /\ Decode(OutputFile(1)) # Decode(OutputFile(2))
    /\ OutputFile(1) # fs0[output_path[1]]
    /\ OutputFile(2) # fs0[output_path[2]]

\* C9: after a successful call the output image has the width and height of
\* the input image.
C9_SameSize ==
    \A p \in Procs :
        Succeeded(p) =>
            (OutputFile(p).kind = "image" /\ OutputFile(p).size = InputFile(p).size)

\* A successful call on an image that is not square.
C9_Witness ==
    /\ Succeeded(1)
    /\ InputFile(1).size = <<2, 1>>
    /\ OutputFile(1).size = <<2, 1>>

\* The whole-array computation of lines 12 and 15 on one input file.
Vectorised(file) ==
    LET d == ToArray(ToRGBA(Decode(file)))
    IN  ZeroAlpha(d, BlackMask(d))

\* C10: masking and zeroing alpha one pixel at a time, in any order of the
\* pixels, ends with the array the whole-array computation gives.
C10_OrderIndependent ==
    \A p \in Procs :
        pc[p] = "mutated" => data[p] = Vectorised(InputFile(p))

\* A loop that has done two pixels and zeroed the alpha of one of them.
C10_Witness ==
    /\ pc[1] = "mutated"
    /\ Cardinality(visited[1]) >= 2
    /\ \E i \in visited[1], j \in visited[1] :
          /\ i < j
          /\ DarkAt(InputFile(1), i)
          /\ AlphaOf(InputFile(1), i) # 0
          /\ ~DarkAt(InputFile(1), j)
          /\ data[1].px[i][4] = 0

====
